---- MODULE Spec2Model ----
(***************************************************************************)
(* State-machine model of FileDiffPlugin (src/src/main.ts): the commands   *)
(* 'Compare', 'Compare and merge', 'Find sync conflicts and merge' and     *)
(* 'Compare (Index N)', the risk-acknowledgment gate kept in localStorage, *)
(* the single differences view, and the pairing of sync-conflict files.    *)
(*                                                                         *)
(* File names are sequences of one-character strings, so that              *)
(* String.includes and String.replace(regex) are computed character by     *)
(* character.                                                              *)
(***************************************************************************)
EXTENDS Integers, Sequences, FiniteSets, TLC

(***************************************************************************)
(* Bounds of the model.                                                    *)
(***************************************************************************)
\* longest file list given to findSyncConflicts in SpecMatch
MaxFiles == 3
\* command invocations issued in one behaviour of Spec
MaxInv == 2

(***************************************************************************)
(* Characters and file names.                                              *)
(***************************************************************************)
Digits == {"0", "1", "2", "3", "4", "5", "6", "7", "8", "9"}

UpperCase == {"A", "B", "C", "D", "E", "F", "G", "H", "I", "J", "K", "L", "M",
              "N", "O", "P", "Q", "R", "S", "T", "U", "V", "W", "X", "Y", "Z"}

\* the literal 'sync-conflict' of file.name.includes(...)
Marker == <<"s", "y", "n", "c", "-", "c", "o", "n", "f", "l", "i", "c", "t">>

\* number of digits of the date and of the time in the regular expression
DateDigits == 8
TimeDigits == 6

\* s.includes(sub)
Includes(s, sub) ==
    \E p \in 1..Len(s) : /\ p + Len(sub) - 1 <= Len(s)
                         /\ SubSeq(s, p, p + Len(sub) - 1) = sub

\* all characters of s[from..to] are in class
AllIn(s, from, to, class) ==
    /\ to <= Len(s)
    /\ \A q \in from..to : s[q] \in class

\* length of the fixed part of the tag: '.sync-conflict-' \d{8} '-' \d{6} '-'
TagPrefixLen == 1 + Len(Marker) + 1 + DateDigits + 1 + TimeDigits + 1

\* the fixed part of /\.sync-conflict-\d{8}-\d{6}-[A-Z0-9]+/ matches s at p,
\* and at least one character of [A-Z0-9] follows it
TagMatchesAt(s, p) ==
    LET m  == p + 1                  \* first character of 'sync-conflict'
        d1 == m + Len(Marker) + 1    \* first digit of the date
        d2 == d1 + DateDigits + 1    \* first digit of the time
        t  == d2 + TimeDigits + 1    \* first character of the token
    IN  /\ t <= Len(s)
        /\ s[p] = "."
        /\ SubSeq(s, m, m + Len(Marker) - 1) = Marker
        /\ s[d1 - 1] = "-"
        /\ AllIn(s, d1, d1 + DateDigits - 1, Digits)
        /\ s[d2 - 1] = "-"
        /\ AllIn(s, d2, d2 + TimeDigits - 1, Digits)
        /\ s[t - 1] = "-"
        /\ s[t] \in UpperCase \cup Digits

\* last position of the greedy token [A-Z0-9]+ that starts at t
TokenEnd(s, t) ==
    CHOOSE e \in t..Len(s) :
        /\ \A q \in t..e : s[q] \in UpperCase \cup Digits
        /\ (e = Len(s) \/ s[e + 1] \notin UpperCase \cup Digits)

\* the regular expression has a match somewhere in s
HasTag(s) == \E p \in 1..Len(s) : TagMatchesAt(s, p)

\* the regular expression written without the '+' of its token
StripTag_OneTokenChar(s) ==
    IF HasTag(s)
    THEN LET p == CHOOSE q \in 1..Len(s) :
                      /\ TagMatchesAt(s, q)
                      /\ \A r \in 1..(q - 1) : ~TagMatchesAt(s, r)
         IN  SubSeq(s, 1, p - 1) \o SubSeq(s, p + TagPrefixLen + 1, Len(s))
    ELSE s

\* file.name.replace(/\.sync-conflict-\d{8}-\d{6}-[A-Z0-9]+/, ''): the leftmost
\* match is removed, a name without a match is returned as it is
StripTag(s) ==
    IF HasTag(s)
    THEN LET p == CHOOSE q \in 1..Len(s) :
                      /\ TagMatchesAt(s, q)
                      /\ \A r \in 1..(q - 1) : ~TagMatchesAt(s, r)
             e == TokenEnd(s, p + TagPrefixLen)
         IN  SubSeq(s, 1, p - 1) \o SubSeq(s, e + 1, Len(s))
    ELSE s

(***************************************************************************)
(* Files of the vault: TFile with its path, name and parent folder.        *)
(***************************************************************************)
NoParent == [isNull |-> TRUE, path |-> ""]
Folder(p) == [isNull |-> FALSE, path |-> p]

\* file.parent?.path ?? ""
ParentPathOrEmpty(f) == IF f.parent.isNull THEN "" ELSE f.parent.path

NotesMd == <<"N", "o", "t", "e", "s", ".", "m", "d">>
DotMd == <<".", "m", "d">>

\* a tag as the synchronisation tool writes it
Tag(date, time, token) ==
    <<".">> \o Marker \o <<"-">> \o date \o <<"-">> \o time \o <<"-">> \o token

TagA == Tag(<<"2", "0", "2", "4", "0", "1", "0", "1">>,
            <<"1", "2", "0", "0", "0", "0">>,
            <<"A", "B", "C", "1", "2", "3">>)
TagB == Tag(<<"2", "0", "2", "3", "1", "2", "3", "1">>,
            <<"2", "3", "5", "9", "5", "9">>,
            <<"Z", "9">>)
\* not a tag: seven digits in the date
TagShort == Tag(<<"2", "0", "2", "4", "0", "1", "0">>,
                <<"1", "2", "0", "0", "0", "0">>,
                <<"A", "B", "C">>)

ValidTags == {TagA, TagB}

\* the file names of the model, each with a printable label used in its path
NameTable ==
    { [label |-> "Notes.md",               name |-> NotesMd],
      [label |-> "Notes.md.TagA",          name |-> NotesMd \o TagA],
      [label |-> "Notes.md.TagB",          name |-> NotesMd \o TagB],
      [label |-> "Notes.TagA.md",          name |-> SubSeq(NotesMd, 1, 5) \o TagA \o DotMd],
      [label |-> "Notes.md.TagA.TagB",     name |-> NotesMd \o TagA \o TagB],
      [label |-> "Notes.md.TagShort",      name |-> NotesMd \o TagShort],
      [label |-> "my-sync-conflict.md",    name |-> <<"m", "y", "-">> \o Marker \o DotMd] }

ParentTable == { [prefix |-> "", parent |-> NoParent],
                 [prefix |-> "dir/", parent |-> Folder("dir")] }

FileUniverse ==
    { [path |-> d.prefix \o n.label, name |-> n.name, parent |-> d.parent] :
          n \in NameTable, d \in ParentTable }

\* sequences of at most n distinct files (paths are unique within a vault)
RECURSIVE FileLists(_)
FileLists(n) ==
    IF n = 0 THEN {<<>>}
    ELSE LET shorter == FileLists(n - 1)
         IN  shorter \cup
             { Append(l, f) : l \in {x \in shorter : Len(x) = n - 1},
                              f \in FileUniverse }

DistinctFiles(l) == \A a, b \in 1..Len(l) : a # b => l[a].path # l[b].path

(***************************************************************************)
(* findSyncConflicts                                                       *)
(***************************************************************************)
\* the predicate without the comparison of the parent folders
IsOriginalOf_AnyFolder(f, file, originalFileName) ==
    f.name = originalFileName

\* the predicate of files.find(...)
IsOriginalOf(f, file, originalFileName) ==
    f.name = originalFileName /\ ParentPathOrEmpty(file) = ParentPathOrEmpty(f)

\* files.find(pred): index of the first match, 0 for undefined
FindOriginal(fs, file) ==
    LET originalFileName == StripTag(file.name)
        hits == {k \in 1..Len(fs) : IsOriginalOf(fs[k], file, originalFileName)}
    IN  IF hits = {} THEN 0 ELSE CHOOSE k \in hits : \A h \in hits : k <= h

RECURSIVE SyncConflictsUpTo(_, _)
SyncConflictsUpTo(fs, n) ==
    IF n = 0 THEN <<>>
    ELSE LET before == SyncConflictsUpTo(fs, n - 1)
             file == fs[n]
             k == FindOriginal(fs, file)
         IN  IF Includes(file.name, Marker) /\ k # 0
             THEN Append(before, [originalFile |-> fs[k], syncConflictFile |-> file])
             ELSE before

findSyncConflicts_Unshift(fs) ==
    LET r == SyncConflictsUpTo(fs, Len(fs))
    IN  [k \in 1..Len(r) |-> r[Len(r) + 1 - k]]

findSyncConflicts(fs) == SyncConflictsUpTo(fs, Len(fs))

(***************************************************************************)
(* The vaults of Spec: the markdown files of the vault, with 0, 1 and 2    *)
(* pairs returned by findSyncConflicts, and its files that are no markdown *)
(* files.                                                                  *)
(***************************************************************************)
FileAt(p) == CHOOSE f \in FileUniverse : f.path = p

\* a file that getFiles() returns and getMarkdownFiles() does not
Attachment ==
    [path |-> "image.png",
     name |-> <<"i", "m", "a", "g", "e", ".", "p", "n", "g">>,
     parent |-> NoParent]

Vault(markdown, others) == [markdown |-> markdown, others |-> others]

Vaults ==
    { Vault(<<FileAt("Notes.md"), FileAt("dir/Notes.md.TagA")>>, {}),
      Vault(<<FileAt("Notes.md"), FileAt("Notes.md.TagA")>>, {Attachment}),
      Vault(<<FileAt("Notes.md"), FileAt("my-sync-conflict.md")>>, {}),
      Vault(<<FileAt("Notes.md.TagB"), FileAt("Notes.md"), FileAt("Notes.TagA.md")>>,
            {}) }

Range(s) == {s[k] : k \in 1..Len(s)}

(***************************************************************************)
(* View states (ViewState of differences_view) and command invocations.    *)
(***************************************************************************)
\* no continueCallback in the view state
NoCallback == [inv |-> 0, pos |-> 0]

Callback_Shared(i, k) == [inv |-> 1, pos |-> k]

\* the continueCallback created by invocation i for syncConflicts[k]:
\* async (shouldContinue) => resolve(shouldContinue)
Callback(i, k) == [inv |-> i, pos |-> k]

ViewState(f1, f2, merge, cb) ==
    [file1 |-> f1, file2 |-> f2, showMergeOption |-> merge, continueCallback |-> cb]

Invocations == 1..MaxInv

\* number of 'Compare (Index N)' commands: for (let i = 0; i < 10; i++)
IndexedCommands == 10

NoFile == [path |-> "", name |-> <<>>, parent |-> NoParent]

\* an invocation that has not been issued; pc is where the callback of the
\* command is suspended: "warning" and "settling" in showRiskyActionModal
\* (before onAccept, and in its sleep), "picking" in getFileToCompare,
\* "reading" in adapter.read, "iterating" at for await, "reviewing" at await
\* continuePromise with the promise pending and "resolved" with the promise
\* resolved; "returned" and "rejected" when its promise is settled, and
\* "dismissed" when the modal was closed and nothing will settle it
Idle ==
    [ cmd           |-> "none",
      pc            |-> "idle",
      activeFile    |-> NoFile,
      index         |-> 0,        \* i of the compare-indexed closure while it runs
      syncConflicts |-> <<>>,     \* the array iterated by for await
      pos           |-> 0,        \* position of the iteration in it
      opened        |-> <<>>,     \* view states it passed to openDifferencesView
      answers       |-> <<>>,     \* values its continuePromises resolved with
      warned        |-> FALSE,    \* it called showRiskyActionModal
      accepted      |-> FALSE,    \* onAccept(null) ran for its modal
      ackAtStart    |-> FALSE ]   \* the flag when the command was invoked

GatedCommands == {"compare-and-merge", "find-sync-conflicts-and-merge"}

VARIABLES
    files,      \* app.vault.getMarkdownFiles()
    otherFiles, \* the files of app.vault.getFiles() that are no markdown files
    pairs,      \* what the last call of findSyncConflicts returned
    called,     \* findSyncConflicts has been called on files
    flag,       \* localStorage holds the item 'file-diff-merge-warning'
    leaves,     \* the workspace leaves of type VIEW_TYPE_DIFFERENCES, each by its view state
    inv,        \* the command invocations, in the order they were issued
    last        \* the step taken last: its invocation, the spec it parsed, the notices it showed

vars == <<files, otherFiles, pairs, called, flag, leaves, inv, last>>

\* this.app.vault.getFiles(): every file of the vault
getFiles == Range(files) \cup otherFiles

\* invocations issued so far
Started == {i \in Invocations : inv[i].cmd # "none"}

\* the invocation a command issued now becomes
Fresh == Cardinality(Started) + 1

NoSpec == [kind |-> "none", file1 |-> [type |-> "undefined", str |-> ""],
           file2 |-> [type |-> "undefined", str |-> ""]]

\* a step that reads no spec and shows no notice
Quiet == [inv |-> 0, index |-> 0, notices |-> <<>>, content |-> NoSpec]

\* a step of invocation n, of 'Compare (Index i)', that shows the notices ns
\* after reading content
Shown(n, i, ns, content) ==
    [inv |-> n, index |-> i, notices |-> ns, content |-> content]

(***************************************************************************)
(* The acknowledgment flag and the differences view                        *)
(***************************************************************************)
MergeWarningUnset_Never == FALSE

MergeWarningUnset_Always == TRUE

\* !localStorage.getItem(this.fileDiffMergeWarningKey)
MergeWarningUnset == ~flag

\* this.app.workspace.detachLeavesOfType(VIEW_TYPE_DIFFERENCES)
detachLeavesOfType(ls) == <<>>

\* leaf.setViewState({type: VIEW_TYPE_DIFFERENCES, active: true, state}) on
\* the new leaf: the leaf shows the differences view with that state
setViewState(ls, state) == Append(ls, state)

openDifferencesView_NoDetach(state) ==
    leaves' = setViewState(leaves, state)

\* openDifferencesView(state): the leaves of the type are detached, a new leaf
\* is created, given the view state and revealed
openDifferencesView(state) ==
    leaves' = setViewState(detachLeavesOfType(leaves), state)

(***************************************************************************)
(* 'Compare' and 'Compare and merge'                                       *)
(***************************************************************************)
\* the view state of 'Compare' (merge = FALSE) and of 'Compare and merge'
PickedViewState(activeFile, compareFile, merge) ==
    ViewState(activeFile, compareFile, merge, NoCallback)

\* checkCallback(false) of 'Compare' with an active file: getFileToCompare
\* opens the file picker (with no active file the command returns false)
Compare(activeFile) ==
    /\ Fresh \in Invocations
    /\ inv' = [inv EXCEPT ![Fresh] =
                  [Idle EXCEPT !.cmd = "compare", !.pc = "picking",
                               !.activeFile = activeFile, !.ackAtStart = flag]]
    /\ last' = Quiet
    /\ UNCHANGED <<files, otherFiles, pairs, called, flag, leaves>>

\* checkCallback(false) of 'Compare and merge': proceedWithMerge up to its
\* first await
CompareAndMerge(activeFile) ==
    /\ Fresh \in Invocations
    /\ inv' = [inv EXCEPT ![Fresh] =
                  [Idle EXCEPT !.cmd = "compare-and-merge",
                               !.pc = IF MergeWarningUnset THEN "warning" ELSE "picking",
                               !.warned = MergeWarningUnset,
                               !.activeFile = activeFile, !.ackAtStart = flag]]
    /\ last' = Quiet
    /\ UNCHANGED <<files, otherFiles, pairs, called, flag, leaves>>

\* SelectFileModal calls onChoose(null, f) with a file of selectableFiles
PickerChooses(i, f) ==
    /\ inv[i].pc = "picking"
    /\ f \in getFiles \ {inv[i].activeFile}
    /\ LET state == PickedViewState(inv[i].activeFile, f,
                                     inv[i].cmd = "compare-and-merge")
       IN  /\ openDifferencesView(state)
           /\ inv' = [inv EXCEPT ![i].opened = Append(@, state),
                                 ![i].pc = "returned"]
    /\ last' = Quiet
    /\ UNCHANGED <<files, otherFiles, pairs, called, flag>>

PickerChoosesNothing_Detaches(i) ==
    /\ inv[i].pc = "picking"
    /\ inv' = [inv EXCEPT ![i].pc = "returned"]
    /\ leaves' = detachLeavesOfType(leaves)
    /\ last' = Quiet
    /\ UNCHANGED <<files, otherFiles, pairs, called, flag>>

\* SelectFileModal calls onChoose(null, undefined): compareFile == null
PickerChoosesNothing(i) ==
    /\ inv[i].pc = "picking"
    /\ inv' = [inv EXCEPT ![i].pc = "returned"]
    /\ last' = Quiet
    /\ UNCHANGED <<files, otherFiles, pairs, called, flag, leaves>>

\* SelectFileModal calls onChoose(e): the promise of getFileToCompare rejects
PickerFails(i) ==
    /\ inv[i].pc = "picking"
    /\ inv' = [inv EXCEPT ![i].pc = "rejected"]
    /\ last' = Quiet
    /\ UNCHANGED <<files, otherFiles, pairs, called, flag, leaves>>

(***************************************************************************)
(* 'Find sync conflicts and merge'                                         *)
(***************************************************************************)
\* the view state of the loop for syncConflicts[k]
ReviewViewState(i, syncConflict, k) ==
    ViewState(syncConflict.originalFile, syncConflict.syncConflictFile, TRUE,
              Callback(i, k))

\* if (!shouldContinue) break
BreaksLoop_Never(shouldContinue) == FALSE

BreaksLoop_Inverted(shouldContinue) == shouldContinue

BreaksLoop(shouldContinue) == ~shouldContinue

\* the position for await moves to after position k
NextPosition_Skip(k) == k + 2

NextPosition(k) == k + 1

\* const syncConflicts = this.findSyncConflicts(); the loop then awaits the
\* first step of its iterator: the callback is suspended at for await, before
\* any view; base is inv with what i did before
StartReview(base, i) ==
    /\ pairs' = findSyncConflicts(files)
    /\ called' = TRUE
    /\ inv' = [base EXCEPT ![i].syncConflicts = findSyncConflicts(files),
                           ![i].pos = 1,
                           ![i].pc = "iterating"]
    /\ UNCHANGED leaves

\* the callback of 'Find sync conflicts and merge' up to its first await: the
\* await of showRiskyActionModal, or the for await of the loop
FindSyncConflictsAndMerge ==
    /\ Fresh \in Invocations
    /\ LET me == [Idle EXCEPT !.cmd = "find-sync-conflicts-and-merge",
                              !.ackAtStart = flag,
                              !.warned = MergeWarningUnset]
       IN  IF MergeWarningUnset
           THEN /\ inv' = [inv EXCEPT ![Fresh] = [me EXCEPT !.pc = "warning"]]
                /\ UNCHANGED <<pairs, called, leaves>>
           ELSE StartReview([inv EXCEPT ![Fresh] = me], Fresh)
    /\ last' = Quiet
    /\ UNCHANGED <<files, otherFiles, flag>>

\* the loop of invocation i goes on after for await, at position pos of its
\* array: the body opens the view of syncConflicts[pos] and awaits its
\* continuePromise, or the array is exhausted and the callback returns
ForAwaitGoesOn(i) ==
    LET q == inv[i].syncConflicts
        k == inv[i].pos
    IN  /\ inv[i].pc = "iterating"
        /\ IF k <= Len(q)
           THEN /\ openDifferencesView(ReviewViewState(i, q[k], k))
                /\ inv' = [inv EXCEPT ![i].opened = Append(@, ReviewViewState(i, q[k], k)),
                                      ![i].pc = "reviewing"]
           ELSE /\ inv' = [inv EXCEPT ![i].pc = "returned"]
                /\ UNCHANGED leaves
        /\ last' = Quiet
        /\ UNCHANGED <<files, otherFiles, pairs, called, flag>>

\* every continueCallback handed to a view so far
HandedOut ==
    {v.continueCallback : v \in UNION {Range(inv[i].opened) : i \in Invocations}}
        \ {NoCallback}

Pending_AnyPosition(cb) == inv[cb.inv].pc = "reviewing"

\* the continuePromise whose resolve cb calls is pending: the loop of the
\* invocation awaits it
Pending(cb) == inv[cb.inv].pc = "reviewing" /\ inv[cb.inv].pos = cb.pos

\* a view calls continueCallback(shouldContinue): resolve(shouldContinue)
\* settles the continuePromise if it is still pending, and returns to the
\* view; resolve on a settled promise does nothing
ContinueCallback(cb, shouldContinue) ==
    /\ cb \in HandedOut
    /\ IF Pending(cb)
       THEN inv' = [inv EXCEPT ![cb.inv].answers = Append(@, shouldContinue),
                               ![cb.inv].pc = "resolved"]
       ELSE UNCHANGED inv
    /\ last' = Quiet
    /\ UNCHANGED <<files, otherFiles, pairs, called, flag, leaves>>

\* the loop of invocation i goes on after await continuePromise: it breaks,
\* and the callback returns, or it awaits the next step of its iterator
AwaitGoesOn(i) ==
    /\ inv[i].pc = "resolved"
    /\ IF BreaksLoop(inv[i].answers[Len(inv[i].answers)])
       THEN inv' = [inv EXCEPT ![i].pc = "returned"]
       ELSE inv' = [inv EXCEPT ![i].pos = NextPosition(@), ![i].pc = "iterating"]
    /\ last' = Quiet
    /\ UNCHANGED <<files, otherFiles, pairs, called, flag, leaves>>

(***************************************************************************)
(* showRiskyActionModal                                                    *)
(***************************************************************************)
\* RiskyActionModal calls onAccept(null): localStorage.setItem, then sleep(50)
RiskyAccepted(i) ==
    /\ inv[i].pc = "warning"
    /\ flag' = TRUE
    /\ inv' = [inv EXCEPT ![i].pc = "settling", ![i].accepted = TRUE]
    /\ last' = Quiet
    /\ UNCHANGED <<files, otherFiles, pairs, called, leaves>>

\* sleep(50) is over: resolve(), and the command goes on after its await
RiskySettled(i) ==
    /\ inv[i].pc = "settling"
    /\ IF MergeWarningUnset
       THEN /\ inv' = [inv EXCEPT ![i].pc = "returned"]
            /\ UNCHANGED <<pairs, called, leaves>>
       ELSE IF inv[i].cmd = "compare-and-merge"
            THEN /\ inv' = [inv EXCEPT ![i].pc = "picking"]
                 /\ UNCHANGED <<pairs, called, leaves>>
            ELSE StartReview(inv, i)
    /\ last' = Quiet
    /\ UNCHANGED <<files, otherFiles, flag>>

\* RiskyActionModal calls onAccept(e): reject(e), the await throws
RiskyFails(i) ==
    /\ inv[i].pc = "warning"
    /\ inv' = [inv EXCEPT ![i].pc = "rejected"]
    /\ last' = Quiet
    /\ UNCHANGED <<files, otherFiles, pairs, called, flag, leaves>>

\* the modal is closed without onAccept being called: the promise of
\* showRiskyActionModal stays pending
RiskyDismissed(i) ==
    /\ inv[i].pc = "warning"
    /\ inv' = [inv EXCEPT ![i].pc = "dismissed"]
    /\ last' = Quiet
    /\ UNCHANGED <<files, otherFiles, pairs, called, flag, leaves>>

(***************************************************************************)
(* 'Compare (Index N)'                                                     *)
(***************************************************************************)
\* new Notice(`File Diff Index ${i}: ${text}${detail}`)
Notice(i, text, detail) == [index |-> i, text |-> text, detail |-> detail]

Undefined == [type |-> "undefined", str |-> ""]
Str(p) == [type |-> "string", str |-> p]

\* `${v}` for a field of the spec
Interpolated(v) == IF v.type = "string" THEN v.str ELSE "undefined"

\* the folders of the vault, as TFolder objects: every vault of the model
\* has the folder 'dir'
getFolders == {[path |-> "dir", name |-> <<"d", "i", "r">>, parent |-> NoParent]}

\* paths written in the spec files of the model: a file of the vault, a
\* folder of the vault or a path of neither, for file1 and for file2
File1Paths == {files[1].path, "missing.md"} \cup {f.path : f \in getFolders}
File2Paths == {files[2].path, "missing.md"} \cup {f.path : f \in otherFiles}

\* contents of temp/obsidian-diff/diff-spec-<i>.json: text that is no JSON,
\* the JSON text null, and JSON objects with or without file1 and file2
SpecContents ==
    { [kind |-> "invalid", file1 |-> Undefined, file2 |-> Undefined],
      [kind |-> "null", file1 |-> Undefined, file2 |-> Undefined] } \cup
    { [kind |-> "object", file1 |-> a, file2 |-> b] :
          a \in {Str(p) : p \in File1Paths} \cup {Undefined},
          b \in {Str(p) : p \in File2Paths} \cup {Undefined} }

\* this.app.vault.getAbstractFileByPath(v): the file or the folder at that
\* path, or null
getAbstractFileByPath(v) ==
    IF v.type = "string" /\ \E f \in getFiles \cup getFolders : f.path = v.str
    THEN CHOOSE f \in getFiles \cup getFolders : f.path = v.str
    ELSE NoFile

\* !file1, !file2
IsNull(f) == f = NoFile

IndexedViewState_Merge(file1, file2) == ViewState(file1, file2, TRUE, NoCallback)

\* the view state of 'Compare (Index N)': file1 as TFile, file2 as TFile,
\* whatever getAbstractFileByPath returned
IndexedViewState(file1, file2) == ViewState(file1, file2, FALSE, NoCallback)

\* the callback of 'Compare (Index i)' up to await adapter.read(specPath)
CompareIndexed(i) ==
    /\ Fresh \in Invocations
    /\ inv' = [inv EXCEPT ![Fresh] =
                  [Idle EXCEPT !.cmd = "compare-indexed", !.pc = "reading",
                               !.index = i, !.ackAtStart = flag]]
    /\ last' = Shown(Fresh, i, <<Notice(i, "Loading spec...", "")>>, NoSpec)
    /\ UNCHANGED <<files, otherFiles, pairs, called, flag, leaves>>

\* adapter.read rejects: the catch block shows error.message
ReadFails(n) ==
    /\ inv[n].pc = "reading"
    /\ inv' = [inv EXCEPT ![n].pc = "returned", ![n].index = 0]
    /\ last' = Shown(n, inv[n].index,
                      <<Notice(inv[n].index, "ERROR - ", "message of the read error")>>,
                      NoSpec)
    /\ UNCHANGED <<files, otherFiles, pairs, called, flag, leaves>>

\* adapter.read resolves with content: JSON.parse, the two lookups, the view
ReadReturns(n, content) ==
    LET i == inv[n].index
        file1 == getAbstractFileByPath(content.file1)
        file2 == getAbstractFileByPath(content.file2)
        done == [inv EXCEPT ![n].pc = "returned", ![n].index = 0]
        shown(ns) == Shown(n, i, ns, content)
    IN  /\ inv[n].pc = "reading"
        /\ content \in SpecContents
        /\ CASE content.kind = "invalid" ->
                  \* JSON.parse throws a SyntaxError
                  /\ last' = shown(<<Notice(i, "ERROR - ", "message of the SyntaxError")>>)
                  /\ inv' = done
                  /\ UNCHANGED leaves
             [] content.kind = "null" ->
                  \* spec.file1 throws a TypeError
                  /\ last' = shown(<<Notice(i, "Files loaded", ""),
                                     Notice(i, "ERROR - ", "message of the TypeError")>>)
                  /\ inv' = done
                  /\ UNCHANGED leaves
             [] content.kind = "object" /\ IsNull(file1) ->
                  /\ last' = shown(<<Notice(i, "Files loaded", ""),
                                     Notice(i, "ERROR - File 1 not found: ",
                                            Interpolated(content.file1))>>)
                  /\ inv' = done
                  /\ UNCHANGED leaves
             [] content.kind = "object" /\ ~IsNull(file1) /\ IsNull(file2) ->
                  /\ last' = shown(<<Notice(i, "Files loaded", ""),
                                     Notice(i, "ERROR - File 2 not found: ",
                                            Interpolated(content.file2))>>)
                  /\ inv' = done
                  /\ UNCHANGED leaves
             [] OTHER ->
                  /\ last' = shown(<<Notice(i, "Files loaded", ""),
                                     Notice(i, "Opening diff view...", ""),
                                     Notice(i, "Success!", "")>>)
                  /\ openDifferencesView(IndexedViewState(file1, file2))
                  /\ inv' = [done EXCEPT ![n].opened =
                                Append(@, IndexedViewState(file1, file2))]
        /\ UNCHANGED <<files, otherFiles, pairs, called, flag>>

(***************************************************************************)
(* Spec: the commands, the modals and the views, in any interleaving.      *)
(***************************************************************************)
Init ==
    /\ \E vault \in Vaults :
           /\ files = vault.markdown
           /\ otherFiles = vault.others
    /\ pairs = <<>>
    /\ called = FALSE
    /\ flag \in BOOLEAN
    /\ leaves = <<>>
    /\ inv = [i \in Invocations |-> Idle]
    /\ last = Quiet

\* the command 'Compare (Index i)' and the spec contents tried in Spec; every
\* index and every content of SpecContents is tried in SpecIndexed
TriedIndexes == {IndexedCommands - 1}

TriedContents ==
    { [kind |-> "invalid", file1 |-> Undefined, file2 |-> Undefined],
      [kind |-> "object", file1 |-> Str("missing.md"), file2 |-> Str(files[2].path)],
      [kind |-> "object", file1 |-> Str(files[1].path), file2 |-> Str("missing.md")],
      [kind |-> "object", file1 |-> Str(files[1].path), file2 |-> Str(files[2].path)] }

Next ==
    \/ \E activeFile \in {files[1]} : Compare(activeFile)
    \/ \E activeFile \in {files[1]} : CompareAndMerge(activeFile)
    \/ FindSyncConflictsAndMerge
    \/ \E i \in TriedIndexes : CompareIndexed(i)
    \/ \E i \in Invocations, f \in getFiles : PickerChooses(i, f)
    \/ \E i \in Invocations : PickerChoosesNothing(i)
    \/ \E i \in Invocations : PickerFails(i)
    \/ \E i \in Invocations : RiskyAccepted(i)
    \/ \E i \in Invocations : RiskySettled(i)
    \/ \E i \in Invocations : RiskyFails(i)
    \/ \E i \in Invocations : RiskyDismissed(i)
    \/ \E i \in Invocations : ForAwaitGoesOn(i)
    \/ \E cb \in HandedOut, b \in BOOLEAN : ContinueCallback(cb, b)
    \/ \E i \in Invocations : AwaitGoesOn(i)
    \/ \E n \in Invocations : ReadFails(n)
    \/ \E n \in Invocations, content \in TriedContents : ReadReturns(n, content)

Spec == Init /\ [][Next]_vars

(***************************************************************************)
(* SpecLifecycle: Spec with the plugin being unloaded, and loaded again,   *)
(* at any time; localStorage and the pending promises outlive the unload.  *)
(***************************************************************************)
onunload_RemovesItem ==
    /\ leaves' = detachLeavesOfType(leaves)
    /\ flag' = FALSE
    /\ last' = Quiet
    /\ UNCHANGED <<files, otherFiles, pairs, called, inv>>

\* onunload(): this.app.workspace.detachLeavesOfType(VIEW_TYPE_DIFFERENCES)
onunload ==
    /\ leaves' = detachLeavesOfType(leaves)
    /\ last' = Quiet
    /\ UNCHANGED <<files, otherFiles, pairs, called, flag, inv>>

NextLifecycle ==
    \/ Next
    \/ onunload

SpecLifecycle == Init /\ [][NextLifecycle]_vars

(***************************************************************************)
(* SpecIndexed: the ten commands 'Compare (Index i)' on every spec content *)
(***************************************************************************)
NextIndexed ==
    \/ \E i \in 0..(IndexedCommands - 1) : CompareIndexed(i)
    \/ \E n \in Invocations : ReadFails(n)
    \/ \E n \in Invocations, content \in SpecContents : ReadReturns(n, content)

InitIndexed ==
    /\ files = <<FileAt("Notes.md"), FileAt("Notes.md.TagA")>>
    /\ otherFiles = {Attachment}
    /\ pairs = <<>>
    /\ called = FALSE
    /\ flag = FALSE
    /\ leaves = <<>>
    /\ inv = [i \in Invocations |-> Idle]
    /\ last = Quiet

SpecIndexed == InitIndexed /\ [][NextIndexed]_vars

(***************************************************************************)
(* SpecMatch: findSyncConflicts applied to every list of at most MaxFiles  *)
(* distinct files.                                                         *)
(***************************************************************************)
InitMatch ==
    /\ files \in {l \in FileLists(MaxFiles) : DistinctFiles(l)}
    /\ otherFiles = {}
    /\ pairs = <<>>
    /\ called = FALSE
    /\ flag = FALSE
    /\ leaves = <<>>
    /\ inv = [i \in Invocations |-> Idle]
    /\ last = Quiet

CallFindSyncConflicts ==
    /\ ~called
    /\ pairs' = findSyncConflicts(files)
    /\ called' = TRUE
    /\ UNCHANGED <<files, otherFiles, flag, leaves, inv, last>>

NextMatch == CallFindSyncConflicts

SpecMatch == InitMatch /\ [][NextMatch]_vars

(***************************************************************************)
(* Properties                                                              *)
(***************************************************************************)
IsGated(i) == inv[i].cmd \in GatedCommands

IsReview(i) == inv[i].cmd = "find-sync-conflicts-and-merge"

\* the view state the review loop must open for position k of the array q
ExpectedReview(i, q, k) ==
    [file1 |-> q[k].originalFile, file2 |-> q[k].syncConflictFile,
     showMergeOption |-> TRUE, continueCallback |-> [inv |-> i, pos |-> k]]

\* C1: a view with showMergeOption = true is only ever opened, and only ever
\* shown, while the acknowledgment flag is set; and a gated command whose risk
\* dialog was shown and has not been accepted has opened no view.
C1_MergeViewNeedsAcknowledgment ==
    /\ \A i \in Invocations :
           (\E k \in 1..Len(inv[i].opened) : inv[i].opened[k].showMergeOption) => flag
    /\ \A k \in 1..Len(leaves) : leaves[k].showMergeOption => flag
    /\ \A i \in Invocations :
           (IsGated(i) /\ inv[i].warned /\ ~inv[i].accepted) => inv[i].opened = <<>>

\* one gated command was warned, accepted and opened its merge view, another
\* one had its dialog dismissed or failing and opened nothing
C1_Witness ==
    \E i, j \in Invocations :
        /\ IsGated(i) /\ inv[i].warned /\ inv[i].accepted
        /\ inv[i].opened # <<>> /\ inv[i].opened[1].showMergeOption
        /\ IsGated(j) /\ inv[j].warned /\ inv[j].pc \in {"dismissed", "rejected"}
        /\ inv[j].opened = <<>>

\* the number of views opened so far, by all invocations
RECURSIVE OpenedUpTo(_)
OpenedUpTo(n) == IF n = 0 THEN 0 ELSE OpenedUpTo(n - 1) + Len(inv[n].opened)

\* C2: at most one differences view exists, exactly one once a view has been
\* opened, and every step in which a command opens a view, a review suspended
\* on another view or not, leaves exactly that view, with the view state the
\* command passed.
C2_SingleView ==
    /\ [](Len(leaves) <= 1)
    /\ [](OpenedUpTo(MaxInv) > 0 => Len(leaves) = 1)
    /\ [][\A i \in Invocations :
              Len(inv'[i].opened) > Len(inv[i].opened) =>
                  leaves' = <<inv'[i].opened[Len(inv'[i].opened)]>>]_vars

\* two commands have opened a view each, the first is a review suspended on
\* its view, and the view of the second is the one that exists
C2_Witness ==
    \E i, j \in Invocations :
        /\ i # j
        /\ inv[i].opened # <<>> /\ inv[j].opened # <<>>
        /\ inv[i].pc = "reviewing"
        /\ leaves = <<inv[j].opened[1]>>
        /\ inv[j].opened[1] \notin Range(inv[i].opened)

\* the review of invocation i is past the gate
InLoop(i) ==
    IsReview(i) /\ inv[i].pc \in {"iterating", "reviewing", "resolved", "returned"}

AllTrue(i) == \A a \in 1..Len(inv[i].answers) : inv[i].answers[a]

\* C3: a review past the gate, whose continuations so far were all true, has
\* opened the views of the first pairs of findSyncConflicts in their order: one
\* more than it has answers while it awaits a continuation, as many as it has
\* answers otherwise; it has returned only with as many answers as there are
\* pairs; and each of its steps that follows a true answer goes to the view of
\* the next pair, or returns, without a view, when no pair is left (at once
\* when there is none).
C3_ReviewVisitsAllInOrder ==
    /\ [](\A i \in Invocations :
              (InLoop(i) /\ AllTrue(i)) =>
                  LET q == findSyncConflicts(files)
                      answered == Len(inv[i].answers)
                      opened == Len(inv[i].opened)
                  IN  /\ inv[i].syncConflicts = q
                      /\ opened <= Len(q)
                      /\ \A k \in 1..opened :
                             inv[i].opened[k] = ExpectedReview(i, q, k)
                      /\ inv[i].pc = "reviewing" =>
                             opened = answered + 1 /\ inv[i].pos = opened
                      /\ inv[i].pc = "resolved" => opened = answered
                      /\ inv[i].pc = "iterating" =>
                             opened = answered /\ inv[i].pos = answered + 1
                      /\ inv[i].pc = "returned" =>
                             opened = Len(q) /\ answered = Len(q))
    /\ [][\A i \in Invocations :
              (InLoop(i) /\ AllTrue(i) /\ inv'[i] # inv[i]) =>
                  LET q == inv[i].syncConflicts
                      answered == Len(inv[i].answers)
                  IN  /\ inv[i].pc = "resolved" =>
                             /\ inv'[i].pc = "iterating"
                             /\ inv'[i].opened = inv[i].opened
                      /\ (inv[i].pc = "iterating" /\ answered < Len(q)) =>
                             /\ inv'[i].pc = "reviewing"
                             /\ inv'[i].opened =
                                    Append(inv[i].opened,
                                           ExpectedReview(i, q, answered + 1))
                      /\ (inv[i].pc = "iterating" /\ answered = Len(q)) =>
                             /\ inv'[i].pc = "returned"
                             /\ inv'[i].opened = inv[i].opened]_vars

\* a review of two pairs has returned after two continuations with true
C3_Witness ==
    \E i \in Invocations :
        /\ IsReview(i) /\ inv[i].pc = "returned"
        /\ Len(findSyncConflicts(files)) = 2
        /\ inv[i].answers = <<TRUE, TRUE>>
        /\ Len(inv[i].opened) = 2

\* C4: a review that has received false has no later answer and has opened
\* the views up to the pair it was answered for and no view of a later pair;
\* it is about to return or has returned, and the one step it takes after the
\* false is its return.
C4_FalseStopsReview ==
    /\ [](\A i \in Invocations :
              (IsReview(i) /\ ~AllTrue(i)) =>
                  LET stop == CHOOSE a \in 1..Len(inv[i].answers) : ~inv[i].answers[a]
                  IN  /\ inv[i].pc \in {"resolved", "returned"}
                      /\ Len(inv[i].answers) = stop
                      /\ Len(inv[i].opened) = stop
                      /\ \A k \in 1..stop :
                             inv[i].opened[k] =
                                 ExpectedReview(i, inv[i].syncConflicts, k))
    /\ [][\A i \in Invocations :
              (IsReview(i) /\ ~AllTrue(i) /\ inv'[i] # inv[i]) =>
                  inv'[i] = [inv[i] EXCEPT !.pc = "returned"]]_vars

\* a review of two pairs has returned on false for its first pair
C4_Witness ==
    \E i \in Invocations :
        /\ IsReview(i) /\ inv[i].pc = "returned"
        /\ Len(inv[i].syncConflicts) = 2
        /\ inv[i].answers = <<FALSE>>
        /\ Len(inv[i].opened) = 1

\* files whose name contains 'sync-conflict'
ConflictNamed == {k \in 1..Len(files) : Includes(files[k].name, Marker)}

\* C5 (as claimed): every pair returned by findSyncConflicts has a conflict
\* file whose name matches the tag pattern, an original named as the conflict
\* file with the tag stripped, and both in the same folder.
C5_PairsAreTaggedConflictAndOriginal ==
    called =>
        \A k \in 1..Len(pairs) :
            /\ HasTag(pairs[k].syncConflictFile.name)
            /\ pairs[k].originalFile.name = StripTag(pairs[k].syncConflictFile.name)
            /\ ParentPathOrEmpty(pairs[k].originalFile) =
                   ParentPathOrEmpty(pairs[k].syncConflictFile)

\* C6: a file named with 'sync-conflict' that has no file of the stripped
\* name in its folder is the conflict file of no pair, and there are at most
\* as many pairs as files named with 'sync-conflict'.
C6_UnmatchedConflictYieldsNoPair ==
    called =>
        /\ \A k \in ConflictNamed :
               (~\E o \in 1..Len(files) :
                     /\ files[o].name = StripTag(files[k].name)
                     /\ ParentPathOrEmpty(files[o]) = ParentPathOrEmpty(files[k])) =>
                   ~\E j \in 1..Len(pairs) : pairs[j].syncConflictFile = files[k]
        /\ Len(pairs) <= Cardinality(ConflictNamed)

\* a tagged file whose original is in another folder only, beside a tagged
\* file that is paired
C6_Witness ==
    /\ called
    /\ Len(pairs) = 1
    /\ \E k \in ConflictNamed :
           /\ HasTag(files[k].name)
           /\ \E o \in 1..Len(files) : files[o].name = StripTag(files[k].name)
           /\ \A j \in 1..Len(pairs) : pairs[j].syncConflictFile # files[k]

\* the conflict files of files[o]: its name followed by a tag, same folder
ConflictsOf(o) ==
    {c \in 1..Len(files) :
        /\ \E t \in ValidTags : files[c].name = files[o].name \o t
        /\ ParentPathOrEmpty(files[c]) = ParentPathOrEmpty(files[o])}

\* C7: when the files named with 'sync-conflict' are exactly the k >= 1
\* conflict files of one original, findSyncConflicts returns k pairs, one for
\* each conflict file and all with that original; Notes.md with its one
\* conflict file gives the one pair of the two.
C7_OnePairPerConflictOfOneOriginal ==
    called =>
        /\ \A o \in 1..Len(files) :
               (ConflictsOf(o) # {} /\ ConflictNamed = ConflictsOf(o)) =>
                   /\ Len(pairs) = Cardinality(ConflictsOf(o))
                   /\ \A c \in ConflictsOf(o) :
                          \E j \in 1..Len(pairs) :
                              pairs[j] = [originalFile |-> files[o],
                                          syncConflictFile |-> files[c]]
        /\ files = <<FileAt("Notes.md"), FileAt("Notes.md.TagA")>> =>
               pairs = <<[originalFile |-> FileAt("Notes.md"),
                          syncConflictFile |-> FileAt("Notes.md.TagA")]>>

\* one original with two conflict files, paired twice
C7_Witness ==
    /\ called
    /\ \E o \in 1..Len(files) :
           /\ Cardinality(ConflictsOf(o)) = 2
           /\ ConflictNamed = ConflictsOf(o)
    /\ Len(pairs) = 2
    /\ pairs[1].originalFile = pairs[2].originalFile
    /\ pairs[1].syncConflictFile # pairs[2].syncConflictFile

\* C8: once a risk dialog has been accepted the flag stays set, and a gated
\* command invoked while the flag is set shows no risk dialog and goes on to
\* the file picker or to the loop of the review at once.
C8_NoWarningAfterAcceptance ==
    /\ (\E j \in Invocations : inv[j].accepted) => flag
    /\ \A i \in Invocations :
           (IsGated(i) /\ inv[i].ackAtStart) =>
               /\ ~inv[i].warned
               /\ inv[i].pc \in {"picking", "iterating", "reviewing", "resolved",
                               "returned", "rejected"}

\* a gated command accepted the risk, and a review invoked after it has
\* opened a view without a dialog
C8_Witness ==
    \E j, i \in Invocations :
        /\ j < i
        /\ inv[j].warned /\ inv[j].accepted /\ ~inv[j].ackAtStart
        /\ IsReview(i) /\ inv[i].ackAtStart /\ ~inv[i].warned
        /\ inv[i].opened # <<>>

\* the path of a spec field is the path of no file of the vault
Unresolved(v) == ~\E f \in getFiles : f.path = v.str

\* the last step parsed a spec with two strings of which one is unresolved
LastSpecHasMissingFile ==
    /\ last.content.kind = "object"
    /\ last.content.file1.type = "string"
    /\ last.content.file2.type = "string"
    /\ Unresolved(last.content.file1) \/ Unresolved(last.content.file2)

\* C9 (as claimed): when 'Compare (Index i)' has parsed a spec of two strings of which one
\* is the path of no file, its last notice is the not-found error of command
\* i for the first such side with the path written in the spec, it shows no
\* notice of an opened view, and it returns having opened no view and leaving
\* the views as they were.
C9_MissingFileIsReportedAndNoViewOpened ==
    /\ [](LastSpecHasMissingFile =>
            LET n == last.inv
                side1 == Unresolved(last.content.file1)
                failed == IF side1 THEN last.content.file1 ELSE last.content.file2
            IN  /\ last.index \in 0..(IndexedCommands - 1)
                /\ last.notices[Len(last.notices)] =
                       [index |-> last.index,
                        text |-> IF side1 THEN "ERROR - File 1 not found: "
                                          ELSE "ERROR - File 2 not found: ",
                        detail |-> failed.str]
                /\ \A k \in 1..Len(last.notices) :
                       /\ last.notices[k].index = last.index
                       /\ last.notices[k].text \notin {"Opening diff view...", "Success!"}
                /\ inv[n].pc = "returned"
                /\ inv[n].opened = <<>>)
    /\ [][LastSpecHasMissingFile' => leaves' = leaves]_vars

\* C10: 'Compare' and 'Compare (Index i)' never show the risk dialog, and
\* every view they open has showMergeOption = false and no continueCallback.
C10_PlainComparesAreUngatedAndMergeless ==
    \A i \in Invocations :
        inv[i].cmd \in {"compare", "compare-indexed"} =>
            /\ ~inv[i].warned
            /\ inv[i].pc \in {"picking", "reading", "returned", "rejected"}
            /\ \A k \in 1..Len(inv[i].opened) :
                   /\ ~inv[i].opened[k].showMergeOption
                   /\ inv[i].opened[k].continueCallback = NoCallback

\* 'Compare' and 'Compare (Index i)' have each opened a view while the flag
\* is unset
C10_Witness ==
    /\ ~flag
    /\ \E i, j \in Invocations :
           /\ inv[i].cmd = "compare" /\ inv[i].opened # <<>>
           /\ inv[j].cmd = "compare-indexed" /\ inv[j].opened # <<>>

\* the step taken last ended 'Compare (Index i)' with an error notice
LastFailed ==
    /\ last.inv # 0
    /\ last.notices # <<>>
    /\ last.notices[Len(last.notices)].text \notin {"Loading spec...", "Success!"}

\* the content read is a record with two string fields file1 and file2
TwoStrings(content) ==
    /\ content.kind = "object"
    /\ content.file1.type = "string"
    /\ content.file2.type = "string"

\* the kind of failure an error notice reports
ReportedAs(notice) ==
    CASE notice.text = "ERROR - File 1 not found: " -> "file-not-found-1"
      [] notice.text = "ERROR - File 2 not found: " -> "file-not-found-2"
      [] notice.text = "ERROR - " /\ notice.detail = "message of the read error" ->
             "could-not-read"
      [] notice.text = "ERROR - " -> "malformed-spec"
      [] OTHER -> "none"

\* C11 (as claimed): a failing 'Compare (Index i)' reports its failure with
\* the index i, a read failure as could-not-read, a content that is no record
\* of two strings file1 and file2 as malformed-spec, and an unresolved path of
\* such a record as file-not-found for its side.
C11_EachFailingStepHasItsOwnOutcome ==
    LastFailed =>
        LET notice == last.notices[Len(last.notices)]
        IN  /\ notice.index = last.index
            /\ last.index \in 0..(IndexedCommands - 1)
            /\ last.content = NoSpec => ReportedAs(notice) = "could-not-read"
            /\ (last.content # NoSpec /\ ~TwoStrings(last.content)) =>
                   ReportedAs(notice) = "malformed-spec"
            /\ (TwoStrings(last.content) /\ Unresolved(last.content.file1)) =>
                   ReportedAs(notice) = "file-not-found-1"
            /\ (/\ TwoStrings(last.content)
                /\ ~Unresolved(last.content.file1)
                /\ Unresolved(last.content.file2)) =>
                   ReportedAs(notice) = "file-not-found-2"

\* the risk dialog of invocation i was dismissed or failed
DialogNotAccepted(i) ==
    /\ IsGated(i)
    /\ inv[i].warned
    /\ ~inv[i].accepted
    /\ inv[i].pc # "warning"

\* C12 (as claimed): when the risk dialog of a gated command is dismissed or
\* fails, the gate resolves false and the command returns, having opened no
\* view; the flag is unset as long as no dialog is accepted, and every gated
\* command invoked after it while the flag is unset shows the dialog again.
C12_UnacceptedDialogResolvesFalse ==
    \A i \in Invocations :
        DialogNotAccepted(i) =>
            /\ inv[i].pc = "returned"
            /\ inv[i].opened = <<>>
            /\ (\A j \in Invocations : ~inv[j].accepted) => ~flag
            /\ \A j \in Invocations :
                   (j > i /\ IsGated(j) /\ ~inv[j].ackAtStart) => inv[j].warned

\* C13: the views a review has opened are those of the first pairs of its
\* array, in order; every opened pair but the last was answered with true and
\* a suspended review awaits the pair it opened last; a step that opens a
\* view is a step of the loop going on at for await, never of a review
\* suspended on a view, every pair opened before was answered with true
\* before the step, and the view is the one of the next pair; and the call of
\* a callback opens no view itself.
C13_ViewsFormPrefixAndAdvanceOnTrue ==
    /\ [](\A i \in Invocations :
              IsReview(i) =>
                  LET q == inv[i].syncConflicts
                      n == Len(inv[i].opened)
                  IN  /\ n <= Len(q)
                      /\ \A k \in 1..n : inv[i].opened[k] = ExpectedReview(i, q, k)
                      /\ n > 0 =>
                             /\ Len(inv[i].answers) \in {n - 1, n}
                             /\ \A k \in 1..(n - 1) : inv[i].answers[k]
                      /\ inv[i].pc = "reviewing" =>
                             /\ inv[i].pos = n
                             /\ Len(inv[i].answers) = n - 1)
    /\ [][\A i \in Invocations :
              (IsReview(i) /\ inv'[i].opened # inv[i].opened) =>
                  /\ inv[i].pc = "iterating"
                  /\ Len(inv[i].answers) = Len(inv[i].opened)
                  /\ AllTrue(i)
                  /\ inv'[i].answers = inv[i].answers
                  /\ inv'[i].opened =
                         Append(inv[i].opened,
                                ExpectedReview(i, inv[i].syncConflicts,
                                               Len(inv[i].opened) + 1))]_vars
    /\ [][\A i \in Invocations :
              (IsReview(i) /\ inv'[i].answers # inv[i].answers) =>
                  /\ inv[i].pc = "reviewing"
                  /\ inv'[i].pc = "resolved"
                  /\ inv'[i].opened = inv[i].opened
                  /\ leaves' = leaves]_vars

\* a review of two pairs awaits the second, its first answered with true,
\* while another review had stopped on false
C13_Witness ==
    \E i, j \in Invocations :
        /\ IsReview(i) /\ inv[i].pc = "reviewing"
        /\ Len(inv[i].syncConflicts) = 2
        /\ inv[i].pos = 2
        /\ inv[i].answers = <<TRUE>>
        /\ Len(inv[i].opened) = 2
        /\ IsReview(j) /\ inv[j].answers = <<FALSE>> /\ Len(inv[j].opened) = 1

\* the command of the review is invoked in this step, as invocation j
InvokesReview(j) ==
    /\ inv[j].cmd = "none"
    /\ IsReview(j)'

\* review j opens its first view in this step
StartsReviewing(j) ==
    /\ IsReview(j)
    /\ inv[j].opened = <<>>
    /\ inv'[j].pc = "reviewing"

\* C14: the invocation of a review while an earlier review is suspended on a
\* view leaves the earlier review and the view as they are; when the later
\* review then opens its first view, the earlier one still suspended, it
\* iterates the array it computed itself from position 1, its view, with its
\* own callback, becomes the one view, and the earlier review is left as it
\* was; and a suspended review changes only in a step that calls the callback
\* of the pair it awaits, which opens no view, so that it stays suspended as
\* long as that callback is not called.
C14_SecondReviewLeavesFirstSuspended ==
    /\ [][\A i, j \in Invocations :
              (/\ i # j
               /\ IsReview(i) /\ inv[i].pc = "reviewing"
               /\ InvokesReview(j)) =>
                  /\ inv'[i] = inv[i]
                  /\ leaves' = leaves
                  /\ inv'[j].opened = <<>>
                  /\ inv'[j].pc = "iterating" =>
                         /\ inv'[j].syncConflicts = findSyncConflicts(files)
                         /\ inv'[j].pos = 1]_vars
    /\ [][\A i, j \in Invocations :
              (/\ i # j
               /\ IsReview(i) /\ inv[i].pc = "reviewing"
               /\ StartsReviewing(j)) =>
                  /\ inv'[i] = inv[i]
                  /\ inv'[j].syncConflicts = findSyncConflicts(files)
                  /\ inv'[j].pos = 1
                  /\ inv'[j].opened =
                         <<ExpectedReview(j, findSyncConflicts(files), 1)>>
                  /\ leaves' = inv'[j].opened
                  /\ leaves'[1].continueCallback \notin
                         {v.continueCallback : v \in Range(inv[i].opened)}]_vars
    /\ [][\A i \in Invocations :
              (IsReview(i) /\ inv[i].pc = "reviewing" /\ inv'[i] # inv[i]) =>
                  \E b \in BOOLEAN :
                      /\ ContinueCallback([inv |-> i, pos |-> inv[i].pos], b)
                      /\ inv'[i].answers = Append(inv[i].answers, b)
                      /\ inv'[i].opened = inv[i].opened]_vars

\* two reviews are suspended, the first on its first pair, and the view that
\* exists is the one of the second
C14_Witness ==
    \E i, j \in Invocations :
        /\ i < j
        /\ IsReview(i) /\ inv[i].pc = "reviewing" /\ inv[i].pos = 1
        /\ IsReview(j) /\ inv[j].pc = "reviewing" /\ inv[j].pos = 1
        /\ inv[i].answers = <<>>
        /\ leaves = <<ExpectedReview(j, inv[j].syncConflicts, 1)>>
        /\ leaves[1] \notin Range(inv[i].opened)

\* the continuePromise of cb was resolved by an earlier call of cb
Answered(cb) == Len(inv[cb.inv].answers) >= cb.pos

\* C15: a call of a continueCallback whose pair was answered before, with
\* either value, be it before the loop has gone on or after it has moved to
\* a later pair or returned, leaves every invocation and the views as they
\* are; a review has at most one answer for each pair it opened, and a
\* callback that was handed out and is not answered is the one its review
\* awaits.
C15_ContinuationTakesEffectOnce ==
    /\ [][\A cb \in HandedOut, b \in BOOLEAN :
              (Answered(cb) /\ ContinueCallback(cb, b)) =>
                  /\ inv' = inv
                  /\ leaves' = leaves]_vars
    /\ [](\A i \in Invocations : Len(inv[i].answers) <= Len(inv[i].opened))
    /\ [](\A cb \in HandedOut :
              ~Answered(cb) => inv[cb.inv].pc = "reviewing" /\ inv[cb.inv].pos = cb.pos)

\* the callback of the first pair of a review of two pairs was called with
\* true and the loop has not gone on: the callback can be called again, with
\* either value, and the call leaves the invocations and the views as they are
C15_Witness ==
    \E i \in Invocations :
        /\ IsReview(i)
        /\ inv[i].pc = "resolved"
        /\ inv[i].answers = <<TRUE>>
        /\ Len(inv[i].opened) = 1
        /\ Len(inv[i].syncConflicts) = 2
        /\ inv[i].opened[1].continueCallback \in HandedOut
        /\ Answered(inv[i].opened[1].continueCallback)
        /\ \A b \in BOOLEAN :
               ENABLED (/\ ContinueCallback(inv[i].opened[1].continueCallback, b)
                        /\ inv' = inv
                        /\ leaves' = leaves)

\* C16: no step clears the acknowledgment flag, the unloading of the plugin
\* included, and a step that sets it is the acceptance of a risk dialog by
\* an invocation that was shown one.
C16_FlagIsMonotonic ==
    /\ [][flag => flag']_vars
    /\ [][(~flag /\ flag') =>
              \E i \in Invocations :
                  /\ inv[i].warned /\ inv[i].pc = "warning"
                  /\ RiskyAccepted(i)]_vars

\* a dialog was accepted, a merge view was opened, another dialog failed or
\* was dismissed and the plugin was unloaded: the flag is set
C16_Witness ==
    /\ flag
    /\ leaves = <<>>
    /\ \E i, j \in Invocations :
           /\ inv[i].accepted /\ ~inv[i].ackAtStart /\ inv[i].opened # <<>>
           /\ inv[j].warned /\ inv[j].pc \in {"rejected", "dismissed"}

\* the position in files of a file of the list
PositionOf(f) == CHOOSE k \in 1..Len(files) : files[k] = f

\* C17: the conflict files of the pairs returned by findSyncConflicts are
\* files of the list, in the order in which the list has them, so that no
\* file is the conflict file of two pairs.
C17_PairsFollowOrderOfConflictFiles ==
    called =>
        /\ \A j \in 1..Len(pairs) : pairs[j].syncConflictFile \in Range(files)
        /\ \A j, k \in 1..Len(pairs) :
               j < k => PositionOf(pairs[j].syncConflictFile) <
                            PositionOf(pairs[k].syncConflictFile)

\* two conflict files with their original between them in the list give two
\* pairs, the pair of the first file of the list first
C17_Witness ==
    /\ called
    /\ Len(files) = 3
    /\ Len(pairs) = 2
    /\ pairs[1] = [originalFile |-> files[2], syncConflictFile |-> files[1]]
    /\ pairs[2] = [originalFile |-> files[2], syncConflictFile |-> files[3]]

\* invocation i has ended without opening a view: it has returned (a failing
\* indexed load, a cancelled picker, an empty array of pairs), or its risk
\* dialog failed or was dismissed
OpenedNothing(i) ==
    /\ inv[i].opened = <<>>
    /\ \/ inv[i].pc = "returned"
       \/ inv[i].pc \in {"rejected", "dismissed"} /\ inv[i].warned /\ ~inv[i].accepted

\* this step invokes command j, and every invocation before it has ended
\* without opening a view
FollowsOnlyFailures(j) ==
    /\ j > 1
    /\ inv[j].cmd = "none"
    /\ inv'[j].cmd # "none"
    /\ \A i \in 1..(j - 1) : OpenedNothing(i)

\* C18 (as claimed): an invocation that ended without opening a view has
\* left the flag as it was when it was invoked, no step of it changes the
\* views, and a command invoked after only such invocations finds no view
\* and the flag, hence the risk dialog, as the first invocation found them.
C18_FailedCommandLeavesViewAndFlag ==
    /\ [](\A i \in Invocations :
              (OpenedNothing(i) /\ \A j \in Invocations \ {i} : ~inv[j].accepted) =>
                  flag = inv[i].ackAtStart)
    /\ [][\A i \in Invocations :
              (inv'[i] # inv[i] /\ inv'[i].opened = <<>>) => leaves' = leaves]_vars
    /\ [][\A j \in Invocations :
              FollowsOnlyFailures(j) =>
                  /\ leaves = <<>>
                  /\ inv'[j].ackAtStart = inv[1].ackAtStart
                  /\ inv'[j].warned =
                         (inv'[j].cmd \in GatedCommands /\ ~inv[1].ackAtStart)]_vars

\* C18 (amended): an invocation that ended without opening a view has left
\* the flag as it was when it was invoked unless its own risk dialog was
\* accepted, and then it has left it set: the one step of an invocation that
\* changes the flag is the acceptance of its dialog; no step of it changes the
\* views; and a command invoked after only such invocations finds no view,
\* and finds the flag as the first invocation found it unless one of them
\* accepted its dialog, in which case it shows no dialog.
C18_FailedCommandLeavesViewAndUnacceptedFlag ==
    /\ [](\A i \in Invocations :
              OpenedNothing(i) =>
                  /\ inv[i].accepted => flag
                  /\ (\A j \in Invocations : ~inv[j].accepted) =>
                         flag = inv[i].ackAtStart)
    /\ [][\A i \in Invocations :
              (inv'[i] # inv[i] /\ inv'[i].accepted = inv[i].accepted) =>
                  flag' = flag]_vars
    /\ [][\A i \in Invocations :
              (inv'[i] # inv[i] /\ inv'[i].opened = <<>>) => leaves' = leaves]_vars
    /\ [][\A j \in Invocations :
              FollowsOnlyFailures(j) =>
                  LET set == inv[1].ackAtStart \/
                                 \E i \in 1..(j - 1) : inv[i].accepted
                  IN  /\ leaves = <<>>
                      /\ inv'[j].ackAtStart = set
                      /\ inv'[j].warned = (inv'[j].cmd \in GatedCommands /\ ~set)]_vars

\* a review found no pair and returned while the view of an earlier command
\* is open: the view is still the one that exists
C18_Witness ==
    \E i, j \in Invocations :
        /\ i < j
        /\ inv[i].opened # <<>>
        /\ leaves = <<inv[i].opened[Len(inv[i].opened)]>>
        /\ IsReview(j) /\ OpenedNothing(j)
        /\ inv[j].pc = "returned"
        /\ inv[j].syncConflicts = <<>>

\* C19 (as claimed): no pair returned by findSyncConflicts has one file as
\* its original and its conflict file, and no view opened by a review, or
\* existing with a continueCallback, compares a file with itself.
C19_NoFileIsPairedWithItself ==
    /\ called =>
           \A k \in 1..Len(pairs) : pairs[k].originalFile # pairs[k].syncConflictFile
    /\ \A i \in Invocations :
           IsReview(i) =>
               \A k \in 1..Len(inv[i].opened) :
                   inv[i].opened[k].file1 # inv[i].opened[k].file2
    /\ \A k \in 1..Len(leaves) :
           leaves[k].continueCallback # NoCallback => leaves[k].file1 # leaves[k].file2

====
